---- MODULE Spec2Model ----
(***************************************************************************)
(* Qimen Dunjia chart generation (app/qimen.py): the sexagenary pillars,   *)
(* the solar term locator, board type and ju, the flying of the nine stars *)
(* and the eight gates, and the chart assembly.                            *)
(*                                                                         *)
(* The glyphs of the source (stems, branches, stars, gates) are written in *)
(* ASCII transliteration; a two-glyph pillar label is the 2-sequence of    *)
(* its glyphs.  Dictionaries are functions whose DOMAIN is the key set.    *)
(***************************************************************************)
EXTENDS Integers, Sequences, FiniteSets, TLC

VARIABLES
    now,            \* the datetime handed to generate_chart (the civil clock)
    pillars,        \* generate_chart's locals: the four (stem, branch) pairs
    board,          \* board_and_ju's locals at its return
    chart,          \* the dictionary generate_chart returned
    start,          \* the first of two dates compared by the day pillar
    elapsed,        \* days between start and now
    pc,             \* position inside generate_chart's palace assembly
    board_type,     \* palace assembly: the board type in use
    ju,             \* palace assembly: the ju number in use
    star_map,       \* palace assembly: fly_items' result for the stars
    seq,            \* palace assembly: the directional index walk
    flying_order,   \* palace assembly: the non-5 palaces in walk order
    gates_mapping,  \* palace assembly: palace -> gate
    palaces,        \* palace assembly: the list of palace records
    question,       \* chart_to_prompt's question argument
    context,        \* chart_to_prompt's context argument (None when left out)
    prompt,         \* the string chart_to_prompt returned
    users,          \* the user store (users.json): id -> record
    result,         \* the outcome of the last call into the store
    signins,        \* per user, the sign-ins that succeeded on the current day
    request,        \* the paid request in flight: the handler's frame
    llm_calls       \* number of prompts handed to ask_llm

clockVars == <<now, pillars, board, chart>>
gapVars == <<start, elapsed>>
flyVars == <<pc, board_type, ju, star_map, seq, flying_order, gates_mapping, palaces>>
promptVars == <<question, context, prompt>>
ledgerVars == <<users, result, signins>>
paidVars == <<request, llm_calls>>
vars == <<now, pillars, board, chart, start, elapsed, pc, board_type, ju,
          star_map, seq, flying_order, gates_mapping, palaces,
          question, context, prompt, users, result, signins, request,
          llm_calls>>

(***************************************************************************)
(* Bounds of the model.                                                    *)
(***************************************************************************)
FirstYear == 2020
LastYear == 2025
MaxGap == 61
MaxQuestionLen == 3
MaxContextLen == 1

Years == FirstYear..LastYear
\* Years of the day-pillar comparison: around a century year that is no leap
\* year (1900), one that is (2000), and an ordinary leap year (2024).
AnchorYears == {1899, 1900, 1999, 2000, 2023, 2024}

(***************************************************************************)
(* The civil calendar of Python's datetime: date(y, m, d), the difference  *)
(* of two dates in days, and the clock's advance.                          *)
(***************************************************************************)
IsLeap(y) == (y % 4 = 0 /\ y % 100 # 0) \/ y % 400 = 0

DaysInMonth(y, m) ==
    IF m = 2 THEN (IF IsLeap(y) THEN 29 ELSE 28)
    ELSE IF m \in {4, 6, 9, 11} THEN 30 ELSE 31

DaysBeforeMonth(y, m) ==
    <<0, 31, 59, 90, 120, 151, 181, 212, 243, 273, 304, 334>>[m]
        + (IF m > 2 /\ IsLeap(y) THEN 1 ELSE 0)

DaysBeforeYear(y) ==
    (y - 1) * 365 + ((y - 1) \div 4) - ((y - 1) \div 100) + ((y - 1) \div 400)

\* date.toordinal(): (a - b).days = ToOrdinal(a) - ToOrdinal(b)
ToOrdinal(y, m, d) == DaysBeforeYear(y) + DaysBeforeMonth(y, m) + d

\* dt + timedelta(days=1)
NextDate(dt) ==
    IF dt.day < DaysInMonth(dt.year, dt.month)
    THEN [dt EXCEPT !.day = dt.day + 1]
    ELSE IF dt.month < 12
    THEN [dt EXCEPT !.month = dt.month + 1, !.day = 1]
    ELSE [dt EXCEPT !.year = dt.year + 1, !.month = 1, !.day = 1]

\* dt + timedelta(minutes=30)
NextHalfHour(dt) ==
    IF dt.minute = 0 THEN [dt EXCEPT !.minute = 30]
    ELSE IF dt.hour < 23 THEN [dt EXCEPT !.hour = dt.hour + 1, !.minute = 0]
    ELSE [NextDate(dt) EXCEPT !.hour = 0, !.minute = 0]

\* Python's tuple comparison (a1, a2) < (b1, b2)
TupleLess(a, b) == a[1] < b[1] \/ (a[1] = b[1] /\ a[2] < b[2])

(***************************************************************************)
(* Module constants.                                                       *)
(***************************************************************************)
HEAVENLY_STEMS ==
    <<"Jia", "Yi", "Bing", "Ding", "Wu", "Ji", "Geng", "Xin", "Ren", "Gui">>
EARTHLY_BRANCHES ==
    <<"zi", "chou", "yin", "mao", "chen", "si", "wu", "wei", "shen", "you",
      "xu", "hai">>
NINE_STARS ==
    <<"TianPeng", "TianRui", "TianChong", "TianFu", "TianQin", "TianXin",
      "TianZhu", "TianRen", "TianYing">>
EIGHT_GATES ==
    <<"Xiu1", "Sheng1", "Shang1", "Du4", "Jing3", "Si3", "Jing1", "Kai1">>
PALACE_NUMBERS == <<1, 2, 3, 4, 5, 6, 7, 8, 9>>

(***************************************************************************)
(* julian_day, sexagenary_day, sexagenary_hour.                            *)
(***************************************************************************)
\* int(365.25 * n) for n >= 0: 365.25 is exact in binary floating point.
Int365_25(n) == (1461 * n) \div 4
\* int(30.6001 * n) for n in 4..15: the products lie at least 0.0005 from
\* an integer, far beyond the rounding error of the multiplication.
Int30_6001(n) == (306001 * n) \div 10000

\* julian_day shifting only January into the preceding year
julian_day_feb_unshifted(gdt) ==
    LET y0 == gdt.year
        m0 == gdt.month
        d == gdt.day
        y == IF m0 < 2 THEN y0 - 1 ELSE y0
        m == IF m0 < 2 THEN m0 + 12 ELSE m0
        a == y \div 100
        b == 2 - a + (a \div 4)
    IN  Int365_25(y + 4716) + Int30_6001(m + 1) + d + b - 1524

julian_day(gdt) ==
    LET y0 == gdt.year
        m0 == gdt.month
        d == gdt.day
        y == IF m0 <= 2 THEN y0 - 1 ELSE y0
        m == IF m0 <= 2 THEN m0 + 12 ELSE m0
        a == y \div 100
        b == 2 - a + (a \div 4)
    IN  Int365_25(y + 4716) + Int30_6001(m + 1) + d + b - 1524

\* sexagenary_day with the branch anchored one day off
sexagenary_day_branch_shifted(dt) ==
    LET jd == julian_day(dt)
    IN  <<(jd + 9) % 10, (jd + 2) % 12>>

sexagenary_day(dt) ==
    LET jd == julian_day(dt)
    IN  <<(jd + 9) % 10, (jd + 1) % 12>>

\* sexagenary_hour without the wrap of hour 23 to branch 0
sexagenary_hour_nowrap(dt, day_stem_index) ==
    LET hour == dt.hour
        branch == (hour + 1) \div 2
        stem == (day_stem_index * 2 + branch) % 10
    IN  <<stem, branch>>

sexagenary_hour(dt, day_stem_index) ==
    LET hour == dt.hour
        branch == ((hour + 1) \div 2) % 12
        stem == (day_stem_index * 2 + branch) % 10
    IN  <<stem, branch>>

(***************************************************************************)
(* solar_term_index.  Indices of the source are 0-based, sequences here    *)
(* are 1-based: boundaries[i + 1] is the source's boundaries[i].           *)
(***************************************************************************)
boundaries ==
    << <<1, 6>>, <<1, 20>>, <<2, 4>>, <<2, 19>>, <<3, 6>>, <<3, 21>>,
       <<4, 5>>, <<4, 20>>, <<5, 5>>, <<5, 21>>, <<6, 6>>, <<6, 21>>,
       <<7, 7>>, <<7, 22>>, <<8, 7>>, <<8, 23>>, <<9, 7>>, <<9, 23>>,
       <<10, 8>>, <<10, 23>>, <<11, 7>>, <<11, 22>>, <<12, 7>>, <<12, 22>> >>

RECURSIVE term_scan(_, _)
\* the for loop of solar_term_index from index i on
term_scan(md, i) ==
    IF i >= Len(boundaries) THEN Len(boundaries) - 1
    ELSE IF TupleLess(md, boundaries[i + 1])
         THEN (IF i > 0 THEN i - 1 ELSE Len(boundaries) - 1)
         ELSE term_scan(md, i + 1)

\* solar_term_index comparing with <=: a boundary date still is in the old term
solar_term_index_late(gdt) ==
    LET md == <<gdt.month, gdt.day>>
        hits == {i \in 0..(Len(boundaries) - 1) :
                    TupleLess(md, boundaries[i + 1]) \/ md = boundaries[i + 1]}
        first == CHOOSE i \in hits : \A k \in hits : i <= k
    IN  IF hits = {} THEN Len(boundaries) - 1
        ELSE IF first > 0 THEN first - 1 ELSE Len(boundaries) - 1

solar_term_index(gdt) == term_scan(<<gdt.month, gdt.day>>, 0)

(***************************************************************************)
(* sexagenary_year_month.                                                  *)
(***************************************************************************)
year_start_stem_lookup ==
    (0 :> 2) @@ (5 :> 2) @@ (1 :> 4) @@ (6 :> 4) @@ (2 :> 6) @@ (7 :> 6)
    @@ (3 :> 8) @@ (8 :> 8) @@ (4 :> 0) @@ (9 :> 0)

\* year_for_pillar comparing the month alone
year_for_pillar_month_only(dt) ==
    IF dt.month < 2 THEN dt.year - 1 ELSE dt.year

year_for_pillar(dt) ==
    IF TupleLess(<<dt.month, dt.day>>, <<2, 4>>) THEN dt.year - 1 ELSE dt.year

\* month_index with a division that truncates towards zero
month_index_trunc(term_idx) ==
    LET n == term_idx - 2
    IN  (IF n < 0 THEN 0 - ((0 - n) \div 2) ELSE n \div 2) % 12

month_index(term_idx) == ((term_idx - 2) \div 2) % 12

sexagenary_year_month(dt) ==
    LET term_idx == solar_term_index(dt)
        stem_year == (year_for_pillar(dt) - 4) % 10
        branch_year == (year_for_pillar(dt) - 4) % 12
        start_stem == year_start_stem_lookup[stem_year]
        stem_month == (start_stem + month_index(term_idx)) % 10
        branch_month == (month_index(term_idx) + 2) % 12
    IN  << <<stem_year, branch_year>>, <<stem_month, branch_month>> >>

(***************************************************************************)
(* board_and_ju.  bj_locals is the function's frame at its return: the     *)
(* returned triple is (board_type, idx, ju).                               *)
(***************************************************************************)
boundaries_bj ==
    << <<1, 6>>, <<1, 20>>, <<2, 4>>, <<2, 19>>, <<3, 6>>, <<3, 21>>,
       <<4, 5>>, <<4, 20>>, <<5, 5>>, <<5, 21>>, <<6, 6>>, <<6, 21>>,
       <<7, 7>>, <<7, 22>>, <<8, 7>>, <<8, 23>>, <<9, 7>>, <<9, 23>>,
       <<10, 8>>, <<10, 23>>, <<11, 7>>, <<11, 22>>, <<12, 7>>, <<12, 22>> >>

yin_mapping ==
    (11 :> <<9, 3, 6>>) @@ (12 :> <<8, 2, 5>>) @@ (13 :> <<7, 1, 4>>)
    @@ (14 :> <<2, 5, 8>>) @@ (15 :> <<1, 4, 7>>) @@ (16 :> <<9, 3, 6>>)
    @@ (17 :> <<7, 1, 4>>) @@ (18 :> <<6, 9, 3>>) @@ (19 :> <<5, 8, 2>>)
    @@ (20 :> <<6, 9, 3>>) @@ (21 :> <<5, 8, 2>>) @@ (22 :> <<4, 7, 1>>)

yang_mapping ==
    (23 :> <<1, 7, 4>>) @@ (0 :> <<2, 8, 5>>) @@ (1 :> <<3, 9, 6>>)
    @@ (2 :> <<8, 5, 2>>) @@ (3 :> <<9, 6, 3>>) @@ (4 :> <<1, 7, 4>>)
    @@ (5 :> <<3, 9, 6>>) @@ (6 :> <<4, 1, 7>>) @@ (7 :> <<5, 2, 8>>)
    @@ (8 :> <<4, 1, 7>>) @@ (9 :> <<5, 2, 8>>) @@ (10 :> <<6, 3, 9>>)

\* dict.get(key, default)
DictGet(dict, key, default) == IF key \in DOMAIN dict THEN dict[key] ELSE default

\* board_type_of with the winter solstice term counted as yin
board_type_of_inclusive(idx) == IF 11 <= idx /\ idx <= 23 THEN "yin" ELSE "yang"

board_type_of(idx) == IF 11 <= idx /\ idx < 23 THEN "yin" ELSE "yang"

\* term_start after the diff_days < 0 branch, as (year, month, day)
term_start_of(dt, idx) ==
    LET term == boundaries_bj[idx + 1]
        first_diff == ToOrdinal(dt.year, dt.month, dt.day)
                        - ToOrdinal(dt.year, term[1], term[2])
        prev == boundaries_bj[((idx - 1) % Len(boundaries_bj)) + 1]
    IN  IF first_diff < 0
        THEN <<dt.year - 1, prev[1], prev[2]>>
        ELSE <<dt.year, term[1], term[2]>>

\* decan_of with inclusive thresholds
decan_of_inclusive(diff_days) ==
    IF diff_days <= 10 THEN 0 ELSE IF diff_days <= 20 THEN 1 ELSE 2

decan_of(diff_days) ==
    IF diff_days < 10 THEN 0 ELSE IF diff_days < 20 THEN 1 ELSE 2

bj_locals(dt) ==
    LET idx == solar_term_index(dt)
        bt == board_type_of(idx)
        term_start == term_start_of(dt, idx)
        diff_days == ToOrdinal(dt.year, dt.month, dt.day)
                        - ToOrdinal(term_start[1], term_start[2], term_start[3])
        decan == decan_of(diff_days)
        j == IF bt = "yin"
             THEN DictGet(yin_mapping, idx, <<1, 4, 7>>)[decan + 1]
             ELSE DictGet(yang_mapping, idx, <<1, 7, 4>>)[decan + 1]
    IN  [board_type |-> bt, idx |-> idx, term_start |-> term_start,
         diff_days |-> diff_days, decan |-> decan, ju |-> j]

board_and_ju(dt) ==
    LET l == bj_locals(dt) IN <<l.board_type, l.idx, l.ju>>

(***************************************************************************)
(* fly_items and the palace assembly of generate_chart.                    *)
(***************************************************************************)
\* fly_pos walking forward on a yin board too
fly_pos_forward_only(bt, start_idx, i, n) == (start_idx + i) % n

\* fly_pos wrapping one position early
fly_pos_short_wrap(bt, start_idx, i, n) ==
    IF bt = "yang" THEN (start_idx + i) % (n - 1) ELSE (start_idx - i) % (n - 1)

\* pos_idx of the i-th item (i from 0)
fly_pos(bt, start_idx, i, n) ==
    IF bt = "yang" THEN (start_idx + i) % n ELSE (start_idx - i) % n

RECURSIVE fly_loop(_, _, _, _)
\* the mapping after the first k items; a later item overwrites an earlier one
fly_loop(bt, j, items, k) ==
    IF k = 0 THEN <<>>
    ELSE LET pos_idx == fly_pos(bt, j - 1, k - 1, Len(PALACE_NUMBERS))
             palace == PALACE_NUMBERS[pos_idx + 1]
         IN  (palace :> items[k]) @@ fly_loop(bt, j, items, k - 1)

fly_items(bt, j, items) == fly_loop(bt, j, items, Len(items))

\* seq: the nine 0-based indices of the directional walk
walk_seq(bt, j) ==
    [k \in 1..9 |-> IF bt = "yang" THEN (j - 1 + (k - 1)) % 9
                    ELSE (j - 1 - (k - 1)) % 9]

RECURSIVE walk_loop(_, _, _)
\* the loop over seq from its k-th entry on, with flying_order = acc so far
walk_loop(sq, k, acc) ==
    IF k > Len(sq) THEN acc
    ELSE LET palace == PALACE_NUMBERS[sq[k] + 1]
         IN  IF palace = 5 THEN walk_loop(sq, k + 1, acc)
             ELSE IF Len(acc) + 1 = Len(EIGHT_GATES) THEN Append(acc, palace)
             ELSE walk_loop(sq, k + 1, Append(acc, palace))

\* walk_order without the skip of palace 5
walk_order_noskip(sq) ==
    [k \in 1..Len(EIGHT_GATES) |-> PALACE_NUMBERS[sq[k] + 1]]

walk_order(sq) == walk_loop(sq, 1, <<>>)

RECURSIVE zip_loop(_, _)
\* for palace, gate in zip(flying_order, EIGHT_GATES): the first k pairs
zip_loop(order, k) ==
    IF k = 0 THEN <<>>
    ELSE (order[k] :> EIGHT_GATES[k]) @@ zip_loop(order, k - 1)

zip_gates(order) ==
    zip_loop(order, IF Len(order) < Len(EIGHT_GATES) THEN Len(order)
                    ELSE Len(EIGHT_GATES))

build_palaces(gates, stars) ==
    [k \in 1..Len(PALACE_NUMBERS) |->
        [position |-> PALACE_NUMBERS[k],
         gate |-> DictGet(gates, PALACE_NUMBERS[k], ""),
         star |-> DictGet(stars, PALACE_NUMBERS[k], "")]]

pillar_label(p) == <<HEAVENLY_STEMS[p[1] + 1], EARTHLY_BRANCHES[p[2] + 1]>>

\* the four (stem, branch) pairs generate_chart computes first
chart_pillars(dt) ==
    LET ym == sexagenary_year_month(dt)
        day == sexagenary_day(dt)
    IN  [year |-> ym[1], month |-> ym[2], day |-> day,
         hour |-> sexagenary_hour(dt, day[1])]

generate_chart(dt) ==
    LET p == chart_pillars(dt)
        bj == board_and_ju(dt)
        stars == fly_items(bj[1], bj[3], NINE_STARS)
        gates == zip_gates(walk_order(walk_seq(bj[1], bj[3])))
    IN  [year_pillar |-> pillar_label(p.year),
         month_pillar |-> pillar_label(p.month),
         day_pillar |-> pillar_label(p.day),
         hour_pillar |-> pillar_label(p.hour),
         board_type |-> bj[1],
         solar_term_index |-> bj[2],
         ju |-> bj[3],
         palaces |-> build_palaces(gates, stars)]

(***************************************************************************)
(* The chart service over the civil clock: time passes in half hours and   *)
(* in days, and a request charts the current instant.  A chart belongs to  *)
(* the request that made it and is gone when the clock moves on.           *)
(***************************************************************************)
None == [none |-> TRUE]

FlyIdle ==
    /\ pc = "idle"
    /\ board_type = "yang"
    /\ ju = 1
    /\ star_map = <<>>
    /\ seq = <<>>
    /\ flying_order = <<>>
    /\ gates_mapping = <<>>
    /\ palaces = <<>>

GapIdle ==
    /\ start = None
    /\ elapsed = 0

PromptIdle ==
    /\ question = None
    /\ context = None
    /\ prompt = None

LedgerIdle ==
    /\ users = <<>>
    /\ result = None
    /\ signins = <<>>

PaidIdle ==
    /\ request = None
    /\ llm_calls = 0

Init ==
    /\ now \in {[year |-> y, month |-> m, day |-> 1, hour |-> 0, minute |-> 0] :
                    y \in Years, m \in 1..12}
    /\ pillars = None
    /\ board = None
    /\ chart = None
    /\ GapIdle
    /\ FlyIdle
    /\ PromptIdle
    /\ LedgerIdle
    /\ PaidIdle

Tick ==
    /\ NextHalfHour(now).year <= LastYear
    /\ now' = NextHalfHour(now)
    /\ pillars' = None
    /\ board' = None
    /\ chart' = None
    /\ UNCHANGED <<gapVars, flyVars, promptVars, ledgerVars, paidVars>>

NextDay ==
    /\ NextDate(now).year <= LastYear
    /\ now' = NextDate(now)
    /\ pillars' = None
    /\ board' = None
    /\ chart' = None
    /\ UNCHANGED <<gapVars, flyVars, promptVars, ledgerVars, paidVars>>

GenerateChart ==
    /\ pillars' = chart_pillars(now)
    /\ board' = bj_locals(now)
    /\ chart' = generate_chart(now)
    /\ UNCHANGED <<now, gapVars, flyVars, promptVars, ledgerVars, paidVars>>

Next == Tick \/ NextDay \/ GenerateChart

Spec == Init /\ [][Next]_vars

(***************************************************************************)
(* The palace assembly of generate_chart on its own, statement by          *)
(* statement, for every board type and every ju.                           *)
(***************************************************************************)
ClockIdle ==
    /\ now = None
    /\ pillars = None
    /\ board = None
    /\ chart = None

FlyInit ==
    /\ ClockIdle
    /\ GapIdle
    /\ PromptIdle
    /\ LedgerIdle
    /\ PaidIdle
    /\ pc = "start"
    /\ board_type \in {"yang", "yin"}
    /\ ju \in 1..9
    /\ star_map = <<>>
    /\ seq = <<>>
    /\ flying_order = <<>>
    /\ gates_mapping = <<>>
    /\ palaces = <<>>

FlyStars ==
    /\ pc = "start"
    /\ star_map' = fly_items(board_type, ju, NINE_STARS)
    /\ pc' = "stars"
    /\ UNCHANGED <<clockVars, gapVars, promptVars, ledgerVars, paidVars, board_type, ju, seq, flying_order,
                   gates_mapping, palaces>>

BuildSeq ==
    /\ pc = "stars"
    /\ seq' = walk_seq(board_type, ju)
    /\ pc' = "seq"
    /\ UNCHANGED <<clockVars, gapVars, promptVars, ledgerVars, paidVars, board_type, ju, star_map, flying_order,
                   gates_mapping, palaces>>

WalkGates ==
    /\ pc = "seq"
    /\ flying_order' = walk_order(seq)
    /\ pc' = "order"
    /\ UNCHANGED <<clockVars, gapVars, promptVars, ledgerVars, paidVars, board_type, ju, star_map, seq,
                   gates_mapping, palaces>>

ZipGates ==
    /\ pc = "order"
    /\ gates_mapping' = zip_gates(flying_order)
    /\ pc' = "gates"
    /\ UNCHANGED <<clockVars, gapVars, promptVars, ledgerVars, paidVars, board_type, ju, star_map, seq,
                   flying_order, palaces>>

BuildPalaces ==
    /\ pc = "gates"
    /\ palaces' = build_palaces(gates_mapping, star_map)
    /\ pc' = "done"
    /\ UNCHANGED <<clockVars, gapVars, promptVars, ledgerVars, paidVars, board_type, ju, star_map, seq,
                   flying_order, gates_mapping>>

FlyNext == FlyStars \/ BuildSeq \/ WalkGates \/ ZipGates \/ BuildPalaces

SpecFly == FlyInit /\ [][FlyNext]_vars

(***************************************************************************)
(* Two charts some days apart: the clock starts on any date of the anchor  *)
(* years and advances day by day, at most MaxGap days.                     *)
(***************************************************************************)
GapInit ==
    /\ start \in {[year |-> y, month |-> m, day |-> d, hour |-> 0, minute |-> 0] :
                    y \in AnchorYears, m \in 1..12, d \in 1..31}
    /\ start.day <= DaysInMonth(start.year, start.month)
    /\ now = start
    /\ elapsed = 0
    /\ pillars = None
    /\ board = None
    /\ chart = None
    /\ FlyIdle
    /\ PromptIdle
    /\ LedgerIdle
    /\ PaidIdle

AdvanceDay ==
    /\ elapsed < MaxGap
    /\ now' = NextDate(now)
    /\ elapsed' = elapsed + 1
    /\ pillars' = None
    /\ board' = None
    /\ chart' = None
    /\ UNCHANGED <<start, flyVars, promptVars, ledgerVars, paidVars>>

GapNext == AdvanceDay \/ GenerateChart

SpecJulian == GapInit /\ [][GapNext]_vars

(***************************************************************************)
(* chart_to_prompt.  A string is the sequence of its pieces: the fixed     *)
(* pieces of the template are single tokens without a line break, a text   *)
(* of the caller is the sequence of its characters, "\n" is the line       *)
(* break.  A string value is wrapped as [text |-> pieces], so that it      *)
(* compares with None.                                                     *)
(***************************************************************************)
Text(pieces) == [text |-> pieces]

\* the characters str.strip() removes, among those of the texts drawn
Whitespace == {" ", "\n"}
Chars == Whitespace \cup {"q"}
TextsUpTo(n) == UNION {[1..k -> Chars] : k \in 0..n}

RECURSIVE lstrip(_)
lstrip(t) ==
    IF t = <<>> THEN t
    ELSE IF Head(t) \in Whitespace THEN lstrip(Tail(t)) ELSE t

RECURSIVE rstrip(_)
rstrip(t) ==
    IF t = <<>> THEN t
    ELSE IF t[Len(t)] \in Whitespace THEN rstrip(SubSeq(t, 1, Len(t) - 1)) ELSE t

\* str.strip()
strip(t) == rstrip(lstrip(t))

RECURSIVE join_lines(_)
\* "\n".join(lines)
join_lines(lines) ==
    IF lines = <<>> THEN <<>>
    ELSE IF Len(lines) = 1 THEN lines[1]
    ELSE lines[1] \o <<"\n">> \o join_lines(Tail(lines))

\* str() of a number in 1..9, as the f-strings format ju and position
str_int(n) == <<"1", "2", "3", "4", "5", "6", "7", "8", "9">>[n]

\* value or the em-dash placeholder
or_dash_raw(v) == v

or_dash(v) == IF v = "" THEN "EmDash" ELSE v

palace_line(palace) ==
    <<"  ", str_int(palace.position), ": ", or_dash(palace.gate), "/",
      or_dash(palace.star)>>

\* if context: neither None nor the empty string
context_given(ctx) == ctx # None /\ ctx.text # <<>>

chart_to_prompt(ch, q, ctx) ==
    LET head ==
            << <<"You are a Qimen Dunjia divination assistant.  Use the provided chart to guide your answer.">>,
               <<"Year pillar: ">> \o ch.year_pillar \o <<", Month pillar: ">>
                    \o ch.month_pillar \o <<", Day pillar: ">> \o ch.day_pillar
                    \o <<", Hour pillar: ">> \o ch.hour_pillar,
               <<"Board type: ", IF ch.board_type = "yin" THEN "Yin" ELSE "Yang",
                 " dun, Ju: ", str_int(ch.ju)>>,
               <<"Palaces (position: Gate/Star):">> >>
        body == [k \in 1..Len(ch.palaces) |-> palace_line(ch.palaces[k])]
        ctxLines == IF context_given(ctx) THEN << <<"Context:">>, ctx.text >>
                    ELSE <<>>
        tail == << <<"Question:">>, strip(q.text) >>
    IN  Text(join_lines(head \o body \o ctxLines \o tail))

(***************************************************************************)
(* Prompts of the charts of the first of each month, for every question    *)
(* up to MaxQuestionLen characters and every context, left out or up to    *)
(* MaxContextLen characters.                                               *)
(***************************************************************************)
Questions == {Text(t) : t \in TextsUpTo(MaxQuestionLen)}
Contexts == {None} \cup {Text(t) : t \in TextsUpTo(MaxContextLen)}

PromptInit ==
    /\ now \in {[year |-> y, month |-> m, day |-> 1, hour |-> 0, minute |-> 0] :
                    y \in Years, m \in 1..12}
    /\ pillars = None
    /\ board = None
    /\ chart = None
    /\ GapIdle
    /\ FlyIdle
    /\ PromptIdle
    /\ LedgerIdle
    /\ PaidIdle

\* a handler formats the chart it generated, once
ChartToPrompt ==
    /\ chart # None
    /\ prompt = None
    /\ \E q \in Questions, ctx \in Contexts :
        /\ question' = q
        /\ context' = ctx
        /\ prompt' = chart_to_prompt(chart, q, ctx)
    /\ UNCHANGED <<clockVars, gapVars, flyVars, ledgerVars, paidVars>>

PromptNext == GenerateChart \/ ChartToPrompt

SpecPrompt == PromptInit /\ [][PromptNext]_vars

(***************************************************************************)
(* The user store (app/database.py) and the points ledger (app/points.py). *)
(* The store is the dictionary kept in users.json, id -> record; a record  *)
(* is shown without its password, which no ledger operation reads.  A call *)
(* yields the store it leaves behind, the exception it raised ("" when it  *)
(* returned) and the value it returned.                                    *)
(***************************************************************************)
INITIAL_POINTS == 30
DAILY_SIGNIN_POINTS == 5

Raise(db, exc, detail) ==
    [users |-> db, raised |-> exc, detail |-> detail, value |-> None]

Return(db, v) == [users |-> db, raised |-> "", detail |-> "", value |-> v]

\* a returned int, kept apart from a returned record and from None
IntValue(n) == [int |-> n]

\* uuid.uuid4(): an id no record has yet
NewId(db) == Cardinality(DOMAIN db) + 1

create_user(db, email) ==
    IF \E u \in DOMAIN db : db[u].email = email
    THEN Raise(db, "ValueError", "Email is already registered")
    ELSE LET user_id == NewId(db)
             new_user == [id |-> user_id, email |-> email,
                          points |-> INITIAL_POINTS, last_signin |-> None]
         IN  Return((user_id :> new_user) @@ db, new_user)

get_user(db, user_id) == DictGet(db, user_id, None)

\* users[user_id].update(updates), for a user the caller has just read
update_user(db, user_id, updates) ==
    [db EXCEPT ![user_id] = updates @@ db[user_id]]

\* datetime.now(pacific).date()
today_in_user_tz(dt) == [year |-> dt.year, month |-> dt.month, day |-> dt.day]

\* date.isoformat(): year, month and day joined by dashes
isoformat(d) == Text(<<d.year, "-", d.month, "-", d.day>>)

\* date.fromisoformat() under the handler's try/except: None when the
\* string is no ISO date
fromisoformat(s) ==
    LET t == s.text
    IN  IF /\ Len(t) = 5
           /\ t[2] = "-"
           /\ t[4] = "-"
           /\ t[3] \in 1..12
           /\ t[5] \in 1..DaysInMonth(t[1], t[3])
        THEN [year |-> t[1], month |-> t[3], day |-> t[5]]
        ELSE None

\* "if last": neither None nor the empty string
truthy(s) == s # None /\ s.text # <<>>

\* earn_daily_signin that never looks at last_signin
earn_daily_signin_unchecked(db, user_id, dt) ==
    LET user == get_user(db, user_id)
        today == today_in_user_tz(dt)
    IN  IF user = None
        THEN Raise(db, "ValueError", "User not found")
        ELSE LET new_points == user.points + DAILY_SIGNIN_POINTS
             IN  Return(update_user(db, user_id,
                            [points |-> new_points,
                             last_signin |-> isoformat(today)]),
                        IntValue(new_points))

earn_daily_signin(db, user_id, dt) ==
    LET user == get_user(db, user_id)
        today == today_in_user_tz(dt)
    IN  IF user = None
        THEN Raise(db, "ValueError", "User not found")
        ELSE LET last == user.last_signin
                 last_date == IF truthy(last) THEN fromisoformat(last) ELSE None
             IN  IF truthy(last) /\ last_date # None /\ last_date = today
                 THEN Raise(db, "ValueError", "User has already signed in today")
                 ELSE LET new_points == user.points + DAILY_SIGNIN_POINTS
                      IN  Return(update_user(db, user_id,
                                     [points |-> new_points,
                                      last_signin |-> isoformat(today)]),
                                 IntValue(new_points))

\* spend_points without the comparison of the balance with the amount
spend_points_unchecked(db, user_id, amount) ==
    IF amount <= 0
    THEN Raise(db, "ValueError", "Amount must be positive")
    ELSE LET user == get_user(db, user_id)
         IN  IF user = None
             THEN Raise(db, "ValueError", "User not found")
             ELSE LET new_balance == user.points - amount
                  IN  Return(update_user(db, user_id, [points |-> new_balance]),
                             IntValue(new_balance))

spend_points(db, user_id, amount) ==
    IF amount <= 0
    THEN Raise(db, "ValueError", "Amount must be positive")
    ELSE LET user == get_user(db, user_id)
         IN  IF user = None
             THEN Raise(db, "ValueError", "User not found")
             ELSE LET current == user.points
                  IN  IF current < amount
                      THEN Raise(db, "ValueError", "Insufficient points")
                      ELSE LET new_balance == current - amount
                           IN  Return(update_user(db, user_id,
                                          [points |-> new_balance]),
                                      IntValue(new_balance))

(***************************************************************************)
(* The ledger over the civil clock: accounts are created, users sign in    *)
(* and spend, one call at a time, and the day changes at most MaxDays      *)
(* times.  Two addresses sign up, so the store holds at most two records;  *)
(* id 3 is never issued and stands for an unknown user.  Sign-ins stop at  *)
(* MaxPoints.                                                              *)
(***************************************************************************)
MaxDays == 1
MaxPoints == 40

Emails == {"a@example.com", "b@example.com"}
UserIds == 1..3
Amounts == {-1, 0, 10, 30, 100}

LedgerStart == [year |-> FirstYear, month |-> 12, day |-> 31, hour |-> 23, minute |-> 30]

LedgerInit ==
    /\ now = LedgerStart
    /\ pillars = None
    /\ board = None
    /\ chart = None
    /\ GapIdle
    /\ FlyIdle
    /\ PromptIdle
    /\ LedgerIdle
    /\ PaidIdle

CreateUser ==
    /\ \E email \in Emails :
         LET r == create_user(users, email)
         IN  /\ users' = r.users
             /\ result' = [op |-> "create_user", email |-> email,
                           raised |-> r.raised, detail |-> r.detail,
                           value |-> r.value]
             /\ signins' = [u \in DOMAIN r.users |-> DictGet(signins, u, 0)]
    /\ UNCHANGED <<clockVars, gapVars, flyVars, promptVars, paidVars>>

EarnDailySignin ==
    /\ \E user_id \in UserIds :
         /\ user_id \in DOMAIN users =>
                users[user_id].points + DAILY_SIGNIN_POINTS <= MaxPoints
         /\ LET r == earn_daily_signin(users, user_id, now)
            IN  /\ users' = r.users
                /\ result' = [op |-> "earn_daily_signin", user_id |-> user_id,
                              raised |-> r.raised, detail |-> r.detail,
                              value |-> r.value]
                /\ signins' = IF r.raised = ""
                              THEN [signins EXCEPT ![user_id] = @ + 1]
                              ELSE signins
    /\ UNCHANGED <<clockVars, gapVars, flyVars, promptVars, paidVars>>

SpendPoints ==
    /\ \E user_id \in UserIds, amount \in Amounts :
         LET r == spend_points(users, user_id, amount)
         IN  /\ users' = r.users
             /\ result' = [op |-> "spend_points", user_id |-> user_id,
                           amount |-> amount, raised |-> r.raised,
                           detail |-> r.detail, value |-> r.value]
    /\ UNCHANGED <<clockVars, gapVars, flyVars, promptVars, paidVars, signins>>

\* the calendar day changes
Midnight ==
    /\ ToOrdinal(now.year, now.month, now.day)
         - ToOrdinal(LedgerStart.year, LedgerStart.month, LedgerStart.day) < MaxDays
    /\ now' = [NextDate(now) EXCEPT !.hour = 0, !.minute = 0]
    /\ signins' = [u \in DOMAIN users |-> 0]
    /\ UNCHANGED <<pillars, board, chart, gapVars, flyVars, promptVars, paidVars,
                   users, result>>

LedgerNext == CreateUser \/ EarnDailySignin \/ SpendPoints \/ Midnight

SpecLedger == LedgerInit /\ [][LedgerNext]_vars

(***************************************************************************)
(* The four paid endpoints (app/main.py), statement by statement.  request *)
(* is the frame of the handler in flight: what the client sent, the        *)
(* handler's locals, and the response once there is one.  Requests are     *)
(* served one at a time, and nothing else touches the store meanwhile.     *)
(* The fields entry and entry_calls remember the store and the number of   *)
(* LLM calls at the request's arrival.  The store starts with the two      *)
(* accounts signed up and spent down to at most MaxBalance points each.    *)
(***************************************************************************)
MaxBalance == 2

Endpoints == {"inquiry", "quantification", "finance", "destiny"}

\* datetime.MINYEAR
MINYEAR == 1

\* a birth_time without tzinfo, and one in UTC
BirthTimes == {[hour |-> 12, minute |-> 0, tzinfo |-> "naive"],
               [hour |-> 4, minute |-> 0, tzinfo |-> "UTC"]}

\* birth dates in January, when Pacific time is UTC-8
BirthDates == {[year |-> FirstYear, month |-> 1, day |-> 1],
               [year |-> MINYEAR, month |-> 1, day |-> 1]}

\* the request bodies of an endpoint; a birth in year MINYEAR comes with a
\* UTC time only, which parse_birth_datetime refuses (with a naive time
\* board_and_ju would raise on a date of year 0)
Bodies(endpoint) ==
    CASE endpoint = "inquiry" -> {[question |-> Text(<<" ", "q">>)]}
      [] endpoint = "quantification" -> {[crypto |-> c] : c \in {"btc", "eth"}}
      [] endpoint = "finance" -> {[empty |-> TRUE]}
      [] endpoint = "destiny" ->
            {b \in [birth_date : BirthDates, birth_time : BirthTimes] :
                b.birth_date.year = MINYEAR => b.birth_time.tzinfo = "UTC"}

\* str.upper() of the two symbols the request model admits
upper(crypto) == IF crypto = "btc" THEN "BTC" ELSE "ETH"

\* dt - timedelta(days=1)
PrevDate(dt) ==
    IF dt.day > 1
    THEN [dt EXCEPT !.day = dt.day - 1]
    ELSE IF dt.month > 1
    THEN [dt EXCEPT !.month = dt.month - 1,
                    !.day = DaysInMonth(dt.year, dt.month - 1)]
    ELSE [dt EXCEPT !.year = dt.year - 1, !.month = 12, !.day = 31]

\* dt.astimezone(pacific) of a UTC instant in winter: eight hours earlier;
\* None when the result would lie before year MINYEAR (OverflowError)
astimezone_pacific(dt) ==
    IF dt.hour >= 8
    THEN [dt EXCEPT !.hour = dt.hour - 8]
    ELSE IF PrevDate(dt).year < MINYEAR
    THEN None
    ELSE [PrevDate(dt) EXCEPT !.hour = dt.hour + 16]

\* parse_birth_datetime; None when it raises
parse_birth_datetime(birth_date, birth_time) ==
    LET dt == [year |-> birth_date.year, month |-> birth_date.month,
               day |-> birth_date.day, hour |-> birth_time.hour,
               minute |-> birth_time.minute]
    IN  IF birth_time.tzinfo = "naive" THEN dt ELSE astimezone_pacific(dt)

\* the handler's question and context for chart_to_prompt
question_of(endpoint, body) ==
    CASE endpoint = "inquiry" -> body.question
      [] endpoint = "quantification" ->
            Text(<<"What is the outlook for ", upper(body.crypto), "?">>)
      [] endpoint = "finance" ->
            Text(<<"What should I consider when investing today?">>)
      [] endpoint = "destiny" ->
            Text(<<"What does this chart suggest about my future?">>)

context_of(endpoint, body) ==
    CASE endpoint = "inquiry" -> None
      [] endpoint = "quantification" ->
            Text(<<"Provide a bullish or bearish forecast for ",
                   upper(body.crypto),
                   " based on current market sentiment and the Qimen chart.">>)
      [] endpoint = "finance" ->
            Text(<<"Offer a summary of the current economic climate and suggest prudent investment actions.">>)
      [] endpoint = "destiny" ->
            Text(<<"Provide an overview of the querent's career, romance, wealth and health prospects based on the birth chart.">>)

\* the handler charging without the ledger comparing balance and amount
charge_unchecked(db, user_id) == spend_points_unchecked(db, user_id, 1)

\* "Charge one point": points.spend_points(current_user, 1)
charge(db, user_id) == spend_points(db, user_id, 1)

\* the record create_user stored for the n-th sign-up, spent down to points
account(n, email, points) ==
    [create_user(<<>>, email).value EXCEPT !.id = n, !.points = points]

PaidInit ==
    /\ now = LedgerStart
    /\ pillars = None
    /\ board = None
    /\ chart = None
    /\ GapIdle
    /\ FlyIdle
    /\ PromptIdle
    /\ \E p1 \in 0..MaxBalance, p2 \in 0..MaxBalance :
          users = <<account(1, "a@example.com", p1), account(2, "b@example.com", p2)>>
    /\ result = None
    /\ signins = <<0, 0>>
    /\ PaidIdle

\* the request arrives and get_user_id resolves the caller
Receive ==
    /\ request = None
    /\ \E endpoint \in Endpoints, user_id \in UserIds :
         \E body \in Bodies(endpoint) :
            request' = [endpoint |-> endpoint, user_id |-> user_id, body |-> body,
                        pc |-> IF get_user(users, user_id) = None
                               THEN "done" ELSE "spend",
                        remaining |-> None, birth_dt |-> None,
                        status |-> IF get_user(users, user_id) = None
                                   THEN 401 ELSE 0,
                        detail |-> IF get_user(users, user_id) = None
                                   THEN "Invalid user id" ELSE "",
                        points_remaining |-> None,
                        entry |-> users, entry_calls |-> llm_calls]
    /\ UNCHANGED <<clockVars, gapVars, flyVars, promptVars, ledgerVars, llm_calls>>

\* try: remaining = points.spend_points(current_user, 1)
Debit ==
    /\ request # None
    /\ request.pc = "spend"
    /\ LET r == charge(users, request.user_id)
       IN  /\ users' = r.users
           /\ result' = [op |-> "spend_points", user_id |-> request.user_id,
                         amount |-> 1, raised |-> r.raised,
                         detail |-> r.detail, value |-> r.value]
           /\ request' = IF r.raised # ""
                         THEN [request EXCEPT !.pc = "done", !.status = 400,
                                              !.detail = r.detail]
                         ELSE [request EXCEPT !.remaining = r.value,
                                  !.pc = IF request.endpoint = "destiny"
                                         THEN "parse" ELSE "chart"]
    /\ UNCHANGED <<clockVars, gapVars, flyVars, promptVars, signins, llm_calls>>

\* qimen_destiny: try: birth_dt = utils.parse_birth_datetime(...)
ParseBirth ==
    /\ request # None
    /\ request.pc = "parse"
    /\ LET dt == parse_birth_datetime(request.body.birth_date,
                                      request.body.birth_time)
       IN  request' = IF dt = None
                      THEN [request EXCEPT !.pc = "done", !.status = 400,
                                           !.detail = "Invalid birth date/time"]
                      ELSE [request EXCEPT !.birth_dt = dt, !.pc = "chart"]
    /\ UNCHANGED <<clockVars, gapVars, flyVars, promptVars, ledgerVars, llm_calls>>

\* chart = qimen.generate_chart(now), or of birth_dt in qimen_destiny
Chart ==
    /\ request # None
    /\ request.pc = "chart"
    /\ LET dt == IF request.endpoint = "destiny" THEN request.birth_dt ELSE now
       IN  /\ pillars' = chart_pillars(dt)
           /\ board' = bj_locals(dt)
           /\ chart' = generate_chart(dt)
    /\ request' = [request EXCEPT !.pc = "prompt"]
    /\ UNCHANGED <<now, gapVars, flyVars, promptVars, ledgerVars, llm_calls>>

\* prompt = qimen.chart_to_prompt(chart, question[, context])
Prompt ==
    /\ request # None
    /\ request.pc = "prompt"
    /\ question' = question_of(request.endpoint, request.body)
    /\ context' = context_of(request.endpoint, request.body)
    /\ prompt' = chart_to_prompt(chart, question_of(request.endpoint, request.body),
                                 context_of(request.endpoint, request.body))
    /\ request' = [request EXCEPT !.pc = "llm"]
    /\ UNCHANGED <<clockVars, gapVars, flyVars, ledgerVars, llm_calls>>

\* answer = llm.ask_llm(prompt), which returns a string whatever happens
AskLlm ==
    /\ request # None
    /\ request.pc = "llm"
    /\ llm_calls' = llm_calls + 1
    /\ request' = [request EXCEPT !.pc = "return"]
    /\ UNCHANGED <<clockVars, gapVars, flyVars, promptVars, ledgerVars>>

\* return ...Response(..., points_remaining=remaining)
Respond ==
    /\ request # None
    /\ request.pc = "return"
    /\ request' = [request EXCEPT !.pc = "done", !.status = 200,
                                  !.points_remaining = request.remaining]
    /\ UNCHANGED <<clockVars, gapVars, flyVars, promptVars, ledgerVars, llm_calls>>

\* the response is out and the frame is gone
Finish ==
    /\ request # None
    /\ request.pc = "done"
    /\ request' = None
    /\ pillars' = None
    /\ board' = None
    /\ chart' = None
    /\ question' = None
    /\ context' = None
    /\ prompt' = None
    /\ UNCHANGED <<now, gapVars, flyVars, ledgerVars, llm_calls>>

PaidNext ==
    \/ Receive
    \/ Debit
    \/ ParseBirth
    \/ Chart
    \/ Prompt
    \/ AskLlm
    \/ Respond
    \/ Finish

SpecPaid == PaidInit /\ [][PaidNext]_vars

(***************************************************************************)
(* Properties.                                                             *)
(***************************************************************************)
Range(f) == {f[x] : x \in DOMAIN f}
MaxOf(S) == CHOOSE x \in S : \A y \in S : y <= x
Injective(f) == \A x, y \in DOMAIN f : f[x] = f[y] => x = y

\* the palace the directional walk from palace j visits at step i (i from 0)
WalkPalace(bt, j, i) ==
    IF bt = "yang" THEN ((j - 1 + i) % 9) + 1 ELSE ((j - 1 - i) % 9) + 1

\* the non-5 palaces in the order the walk visits them
NonCenterWalk(bt, j) ==
    SelectSeq([k \in 1..9 |-> WalkPalace(bt, j, k - 1)], LAMBDA q : q # 5)

\* C1: for every ju in 1..9 and both board types, fly_items over NINE_STARS
\* returns a mapping whose keys are exactly the palaces 1..9 and whose values
\* are the nine stars, none repeated and none missing.
C1_StarsBijection ==
    pc # "start" =>
        /\ DOMAIN star_map = 1..9
        /\ Range(star_map) = Range(NINE_STARS)
        /\ Injective(star_map)

C1_Witness ==
    /\ pc = "done"
    /\ board_type = "yin"
    /\ ju = 3
    /\ star_map[3] = "TianPeng"
    /\ star_map[4] = "TianYing"

\* C2: for every ju in 1..9 and both board types, the gate walk assigns all 8
\* gates, each to a different palace, the palaces used are exactly
\* {1,2,3,4,6,7,8,9}, palace 5 gets the empty gate, and the gates go in list
\* order to the non-5 palaces in the order the walk from palace ju visits them.
C2_GateWalk ==
    /\ pc \in {"gates", "done"} =>
        /\ DOMAIN gates_mapping = (1..9) \ {5}
        /\ Range(gates_mapping) = Range(EIGHT_GATES)
        /\ Injective(gates_mapping)
        /\ \A k \in 1..8 :
              gates_mapping[NonCenterWalk(board_type, ju)[k]] = EIGHT_GATES[k]
    /\ pc = "done" =>
        /\ palaces[5].gate = ""
        /\ \A q \in (1..9) \ {5} : palaces[q].gate = gates_mapping[q]

C2_Witness ==
    /\ pc = "done"
    /\ board_type = "yang"
    /\ ju = 4
    /\ palaces[4].gate = "Xiu1"
    /\ palaces[6].gate = "Sheng1"
    /\ palaces[5].gate = ""

\* C3: in board_and_ju, for a date before the located term's boundary within
\* the civil year (Jan 1 to Jan 5, term 23, boundary Dec 22) the term start
\* is Dec 22 of the previous year, so that Jan 1 is 10 days after it.
C3_PrevYearSameBoundary ==
    (board # None /\ now.month = 1 /\ now.day <= 5) =>
        /\ board.idx = 23
        /\ board.term_start = <<now.year - 1, 12, 22>>
        /\ now.day = 1 => board.diff_days = 10

\* the index of the last boundary at or before (m, d), 23 when there is none
LastBoundaryAtOrBefore(m, d) ==
    LET atOrBefore == {i \in 0..23 : ~TupleLess(<<m, d>>, boundaries[i + 1])}
    IN  IF atOrBefore = {} THEN 23 ELSE MaxOf(atOrBefore)

\* C4: solar_term_index returns the index of the last of the 24 boundaries at
\* or before (month, day), and 23 before Jan 6; from Jan 6 to Dec 31 the index
\* never decreases from one day to the next and increases, by exactly 1, on
\* each boundary date and on no other date.
C4_SolarTermIndex ==
    LET idx == solar_term_index(now)
        nxt == NextDate(now)
    IN  /\ idx = LastBoundaryAtOrBefore(now.month, now.day)
        /\ TupleLess(<<now.month, now.day>>, <<1, 6>>) => idx = 23
        /\ board # None => board.idx = idx /\ chart.solar_term_index = idx
        /\ (~TupleLess(<<now.month, now.day>>, <<1, 6>>) /\ nxt.year = now.year) =>
              /\ solar_term_index(nxt) \in {idx, idx + 1}
              /\ solar_term_index(nxt) = idx + 1
                    <=> <<nxt.month, nxt.day>> \in Range(boundaries)

C4_Witness ==
    /\ board # None
    /\ now.month = 6
    /\ now.day = 20
    /\ board.idx = 10
    /\ solar_term_index(NextDate(now)) = 11

\* C5: board_and_ju returns board type yin exactly when the solar term index
\* it returns is in 11..22 (Jun 21 up to, not including, Dec 22) and yang for
\* the other 12 indices (0..10 and 23).
C5_BoardType ==
    board # None =>
        /\ board.board_type \in {"yin", "yang"}
        /\ board.board_type = "yin" <=> board.idx \in 11..22
        /\ board.board_type = "yang" <=> board.idx \in (0..10) \cup {23}
        /\ board.board_type = "yin"
              <=> /\ ~TupleLess(<<now.month, now.day>>, <<6, 21>>)
                  /\ TupleLess(<<now.month, now.day>>, <<12, 22>>)
        /\ chart.board_type = board.board_type

C5_Witness ==
    /\ board # None
    /\ now.month = 12
    /\ now.day = 22
    /\ board.idx = 23
    /\ board.board_type = "yang"

\* C6: from Jan 6 to Dec 31, board_and_ju returns ju = T[idx][decan], T the
\* Yin table on a yin board and the Yang table on a yang board, decan 0 when
\* the days since the idx-th boundary of the same civil year are below 10, 1
\* when below 20, 2 otherwise; the ju returned is always in 1..9.
C6_JuFromTables ==
    board # None =>
        /\ board.ju \in 1..9
        /\ chart.ju = board.ju
        /\ ~TupleLess(<<now.month, now.day>>, <<1, 6>>) =>
              LET idx == board.idx
                  b == boundaries_bj[idx + 1]
                  days == ToOrdinal(now.year, now.month, now.day)
                            - ToOrdinal(now.year, b[1], b[2])
                  decan == IF days < 10 THEN 0 ELSE IF days < 20 THEN 1 ELSE 2
                  T == IF board.board_type = "yin" THEN yin_mapping
                       ELSE yang_mapping
              IN  /\ days >= 0
                  /\ idx \in DOMAIN T
                  /\ board.ju = T[idx][decan + 1]

C6_Witness ==
    /\ board # None
    /\ now.month = 7
    /\ now.day = 17
    /\ board.board_type = "yin"
    /\ board.idx = 12
    /\ board.diff_days = 10
    /\ board.ju = 2

\* C7: for two civil dates k days apart the Julian day numbers differ by k
\* (also across month ends, year ends and leap days); so sexagenary_day gives
\* the same (stem, branch) for dates 60 days apart, and the same day stem
\* exactly when the gap in days is a multiple of 10.
C7_JulianDayGap ==
    /\ julian_day(now) - julian_day(start) = elapsed
    /\ elapsed = 60 => sexagenary_day(now) = sexagenary_day(start)
    /\ sexagenary_day(now)[1] = sexagenary_day(start)[1] <=> elapsed % 10 = 0
    /\ pillars # None => pillars.day = sexagenary_day(now)

C7_Witness ==
    /\ pillars # None
    /\ elapsed = 60
    /\ start.year = 1900
    /\ start.month = 1
    /\ start.day = 15
    /\ now.month = 3
    /\ now.day = 16
    /\ pillars.day = sexagenary_day(start)

\* C8: sexagenary_hour returns hour branch 0 for every time with hour 23 and
\* with hour 0 and a non-zero branch b for the hours 2b-1 and 2b; the hour
\* stem is (2*dayStem + hourBranch) mod 10, so the hour pillar at 23:00 and at
\* 00:30 of the same civil date is the same.
C8_HourBranch ==
    LET ds == sexagenary_day(now)[1]
        late == [now EXCEPT !.hour = 23, !.minute = 0]
        early == [now EXCEPT !.hour = 0, !.minute = 30]
    IN  /\ sexagenary_hour(late, ds) = sexagenary_hour(early, ds)
        /\ chart_pillars(late).hour = chart_pillars(early).hour
        /\ pillars # None =>
              /\ pillars.day[1] = ds
              /\ pillars.hour[2] = 0 <=> now.hour \in {0, 23}
              /\ now.hour \in 1..22 =>
                    /\ pillars.hour[2] \in 1..11
                    /\ now.hour \in {2 * pillars.hour[2] - 1, 2 * pillars.hour[2]}
              /\ pillars.hour[1] = (2 * ds + pillars.hour[2]) % 10

C8_Witness ==
    /\ pillars # None
    /\ now.hour = 23
    /\ now.minute = 0
    /\ pillars.hour[2] = 0
    /\ pillars.hour = chart_pillars([now EXCEPT !.hour = 0, !.minute = 30]).hour

\* the pillar year: the previous civil year before Feb 4
PillarYear(dt) ==
    IF dt.month = 1 \/ (dt.month = 2 /\ dt.day <= 3) THEN dt.year - 1 ELSE dt.year

\* C9: sexagenary_year_month uses pillar-year Y-1 before Feb 4 and Y from
\* Feb 4 on, with year stem (pillar-year - 4) mod 10 and year branch
\* (pillar-year - 4) mod 12; Feb 3 and Feb 4 get consecutive year pillars,
\* Dec 31 and the following Jan 1 the same one.
C9_YearPillar ==
    LET yp == sexagenary_year_month(now)[1]
        nyp == sexagenary_year_month(NextDate(now))[1]
    IN  /\ yp = <<(PillarYear(now) - 4) % 10, (PillarYear(now) - 4) % 12>>
        /\ pillars # None => pillars.year = yp
        /\ (now.month = 2 /\ now.day = 3) =>
              nyp = <<(yp[1] + 1) % 10, (yp[2] + 1) % 12>>
        /\ (now.month = 12 /\ now.day = 31) => nyp = yp

C9_Witness ==
    /\ pillars # None
    /\ now.month = 2
    /\ now.day = 3
    /\ pillars.year = <<(now.year - 5) % 10, (now.year - 5) % 12>>
    /\ chart_pillars(NextDate(now)).year # pillars.year

\* the month number of a solar term index, without a negative dividend
MonthNumber(idx) == IF idx <= 1 THEN 11 ELSE (idx - 2) \div 2

\* C10: the month number is ((solarTermIndex - 2) div 2) mod 12 with floor
\* division (indices 0 and 1 give 11, index 2 gives 0, index 23 gives 10), the
\* month branch (month-number + 2) mod 12, the month stem
\* (start + month-number) mod 10, start being 2,4,6,8,0 for year-stem mod 5 =
\* 0,1,2,3,4, the year stem that of the pillar year.
C10_MonthPillar ==
    pillars # None =>
        LET idx == board.idx
            mn == MonthNumber(idx)
            ystem == (PillarYear(now) - 4) % 10
            startStem == <<2, 4, 6, 8, 0>>[(ystem % 5) + 1]
        IN  /\ idx \in {0, 1} => month_index(idx) = 11
            /\ idx = 2 => month_index(idx) = 0
            /\ idx = 23 => month_index(idx) = 10
            /\ pillars.month[2] = (mn + 2) % 12
            /\ pillars.month[1] = (startStem + mn) % 10

C10_Witness ==
    /\ pillars # None
    /\ board.idx = 1
    /\ now.month = 2
    /\ pillars.month[2] = 1
    /\ pillars.year[1] % 5 = 4
    /\ pillars.month[1] = 1

\* C11: for every ju in 1..9 fly_items places the i-th item (i from 0) on
\* palace ((ju-1+i) mod 9)+1 on a yang board and ((ju-1-i) mod 9)+1 on a yin
\* board; with ju = 1 the stars land on palaces 1,2,...,9 in order on a yang
\* board and on 1,9,8,...,2 on a yin board; the palace list reports each
\* palace's star by this placement.
C11_StarPlacement ==
    /\ pc # "start" =>
        /\ \A i \in 0..8 :
              star_map[IF board_type = "yang" THEN ((ju - 1 + i) % 9) + 1
                       ELSE ((ju - 1 - i) % 9) + 1] = NINE_STARS[i + 1]
        /\ (ju = 1 /\ board_type = "yang") =>
              \A i \in 1..9 : star_map[<<1, 2, 3, 4, 5, 6, 7, 8, 9>>[i]] = NINE_STARS[i]
        /\ (ju = 1 /\ board_type = "yin") =>
              \A i \in 1..9 : star_map[<<1, 9, 8, 7, 6, 5, 4, 3, 2>>[i]] = NINE_STARS[i]
    /\ pc = "done" =>
        \A q \in 1..9 : palaces[q].position = q /\ palaces[q].star = star_map[q]

C11_Witness ==
    /\ pc = "done"
    /\ board_type = "yin"
    /\ ju = 1
    /\ palaces[9].star = "TianRui"
    /\ palaces[2].star = "TianYing"

\* C15: each of the four pillars generate_chart computes (year, month, day,
\* hour) has a stem index and a branch index of the same parity.
C15_PillarParity ==
    pillars # None =>
        \A k \in {"year", "month", "day", "hour"} :
            /\ pillars[k][1] \in 0..9
            /\ pillars[k][2] \in 0..11
            /\ pillars[k][1] % 2 = pillars[k][2] % 2

C15_Witness ==
    /\ pillars # None
    /\ now.month = 1
    /\ now.day = 25
    /\ now.hour = 23
    /\ pillars.month[2] = 1
    /\ pillars.hour[2] = 0
    /\ pillars.day[1] % 2 = 1

\* the lines of a string: its pieces between the line breaks
RECURSIVE LinesOf(_)
LinesOf(t) ==
    LET breaks == {i \in 1..Len(t) : t[i] = "\n"}
        first == CHOOSE i \in breaks : \A k \in breaks : i <= k
    IN  IF breaks = {} THEN <<t>>
        ELSE <<SubSeq(t, 1, first - 1)>> \o LinesOf(SubSeq(t, first + 1, Len(t)))

\* a text without its leading and trailing whitespace
Trimmed(t) ==
    LET solid == {i \in 1..Len(t) : t[i] \notin {" ", "\n"}}
        lo == CHOOSE i \in solid : \A k \in solid : i <= k
        hi == CHOOSE i \in solid : \A k \in solid : k <= i
    IN  IF solid = {} THEN <<>> ELSE SubSeq(t, lo, hi)

RECURSIVE LengthOfLines(_, _)
\* the length of the first n lines, each with its line break
LengthOfLines(L, n) ==
    IF n = 0 THEN 0 ELSE Len(L[n]) + 1 + LengthOfLines(L, n - 1)

ContextNonEmpty == context # None /\ Len(context.text) > 0

\* the preamble, pillar, board and header lines, then the nine palace lines
\* in ascending palace number, palace 5 with the placeholder for its gate
PromptHeadAndPalaces ==
    LET L == LinesOf(prompt.text)
    IN  /\ Len(L) >= 15
        /\ L[1] = <<"You are a Qimen Dunjia divination assistant.  Use the provided chart to guide your answer.">>
        /\ L[2] = <<"Year pillar: ", chart.year_pillar[1], chart.year_pillar[2],
                    ", Month pillar: ", chart.month_pillar[1], chart.month_pillar[2],
                    ", Day pillar: ", chart.day_pillar[1], chart.day_pillar[2],
                    ", Hour pillar: ", chart.hour_pillar[1], chart.hour_pillar[2]>>
        /\ L[3] = <<"Board type: ", IF chart.board_type = "yin" THEN "Yin" ELSE "Yang",
                    " dun, Ju: ", <<"1", "2", "3", "4", "5", "6", "7", "8", "9">>[chart.ju]>>
        /\ L[4] = <<"Palaces (position: Gate/Star):">>
        /\ \A k \in 1..9 :
              /\ L[4 + k] = <<"  ", <<"1", "2", "3", "4", "5", "6", "7", "8", "9">>[k], ": ",
                              IF k = 5 THEN "EmDash" ELSE chart.palaces[k].gate, "/",
                              chart.palaces[k].star>>
              /\ chart.palaces[k].star \in Range(NINE_STARS)
              /\ k # 5 => chart.palaces[k].gate \in Range(EIGHT_GATES)
        /\ L[14] = IF ContextNonEmpty THEN <<"Context:">> ELSE <<"Question:">>

\* what follows the palace lines: the context block when the context is
\* non-empty, then "Question:" and the trimmed question, to the end
PromptTail ==
    LET L == LinesOf(prompt.text)
        after == SubSeq(prompt.text, LengthOfLines(L, 13) + 1, Len(prompt.text))
    IN  after = (IF ContextNonEmpty
                 THEN <<"Context:", "\n">> \o context.text \o <<"\n">>
                 ELSE <<>>)
                \o <<"Question:", "\n">> \o Trimmed(question.text)

Called(op) == (result' # result \/ users' # users) /\ result'.op = op

\* C13: no balance is ever negative; spend_points(user, amount) with
\* amount <= 0, an unknown user or an amount above the balance raises
\* ValueError and leaves the store as it was, and otherwise lowers that
\* user's balance by exactly amount, returns the new balance and changes
\* no other user's record.
C13_SpendPoints ==
    [][/\ \A u \in DOMAIN users' : users'[u].points >= 0
       /\ Called("spend_points") =>
            LET u == result'.user_id
                amount == result'.amount
            IN  IF amount <= 0 \/ u \notin DOMAIN users \/ amount > users[u].points
                THEN result'.raised = "ValueError" /\ users' = users
                ELSE /\ result'.raised = ""
                     /\ DOMAIN users' = DOMAIN users
                     /\ users'[u].points = users[u].points - amount
                     /\ result'.value = IntValue(users'[u].points)
                     /\ \A v \in DOMAIN users \ {u} : users'[v] = users[v]]_vars

\* a user has spent a whole balance of 30 while the other user holds 35
C13_Witness ==
    /\ result # None
    /\ result.op = "spend_points"
    /\ result.raised = ""
    /\ result.amount = 30
    /\ result.value = IntValue(0)
    /\ \E v \in DOMAIN users : v # result.user_id /\ users[v].points = 35

\* C14: within one calendar day at most one earn_daily_signin of a user
\* succeeds: the first adds exactly 5 points and sets last_signin to today,
\* every later one that day raises ValueError and leaves balance and
\* last_signin as they were, spending in between changes nothing of this,
\* and the first call on a later day succeeds again.
C14_DailySignin ==
    [][/\ \A u \in DOMAIN signins' : signins'[u] <= 1
       /\ Called("earn_daily_signin") /\ result'.user_id \in DOMAIN users =>
            LET u == result'.user_id
            IN  IF signins[u] = 0
                THEN /\ result'.raised = ""
                     /\ users'[u].points = users[u].points + 5
                     /\ users'[u].last_signin = isoformat(today_in_user_tz(now))
                     /\ result'.value = IntValue(users'[u].points)
                ELSE /\ result'.raised = "ValueError"
                     /\ users' = users
       /\ Called("spend_points") =>
            \A u \in DOMAIN users : users'[u].last_signin = users[u].last_signin]_vars

\* the second day's sign-in has succeeded for a user who also signed in
\* on the first day and has spent 10 in all
C14_Witness ==
    /\ result # None
    /\ result.op = "earn_daily_signin"
    /\ result.raised = ""
    /\ now.year = FirstYear + 1
    /\ signins[result.user_id] = 1
    /\ users[result.user_id].points = 30

\* the store at the request's arrival with one point taken from the caller
Charged == [request.entry EXCEPT ![request.user_id].points = @ - 1]

\* C16: in each paid endpoint the LLM is called only after spend_points
\* has taken exactly 1 point from the caller; when the caller has no point
\* the request ends with status 400 with no chart, no prompt, no LLM call
\* and the store as it was; every response after an LLM call carries
\* points_remaining equal to the caller's balance right after the debit.
C16_PaidRequest ==
    request # None /\ request.status # 401 =>
        LET u == request.user_id
        IN  /\ llm_calls \in {request.entry_calls, request.entry_calls + 1}
            /\ request.pc = "spend" =>
                  users = request.entry /\ llm_calls = request.entry_calls
            /\ request.pc # "spend" =>
                  IF request.entry[u].points < 1
                  THEN /\ request.pc = "done"
                       /\ request.status = 400
                       /\ users = request.entry
                       /\ chart = None
                       /\ prompt = None
                       /\ llm_calls = request.entry_calls
                  ELSE /\ users = Charged
                       /\ request.remaining = IntValue(Charged[u].points)
            /\ llm_calls = request.entry_calls + 1 =>
                  /\ request.pc \in {"return", "done"}
                  /\ users = Charged
                  /\ prompt # None
            /\ request.status = 200 =>
                  /\ llm_calls = request.entry_calls + 1
                  /\ request.points_remaining = IntValue(Charged[u].points)
            /\ request.status = 400 /\ request.entry[u].points >= 1 =>
                  /\ request.endpoint = "destiny"
                  /\ llm_calls = request.entry_calls

\* a destiny request has spent the caller's last point and has answered
\* with points_remaining 0, while the other user's record is untouched
C16_Witness ==
    /\ request # None
    /\ request.endpoint = "destiny"
    /\ request.status = 200
    /\ request.points_remaining = IntValue(0)
    /\ users[request.user_id].points = 0
    /\ llm_calls = request.entry_calls + 1
    /\ Cardinality(DOMAIN users) = 2

====
